---- MODULE Spec2Model ----
(***************************************************************************)
(* A model of the event subsystem of @lumjs/dom (lib/events/index.js):     *)
(* the Events registry (on, off, build, trigger), its EventHandler         *)
(* records, the per-node table kept under the module's EVENTS symbol, and  *)
(* the part of the host DOM the registry talks to (listener lists,         *)
(* dispatch along the ancestor chain, selector matching).                  *)
(*                                                                         *)
(* JavaScript values are tagged records: the field t is the value's        *)
(* typeof.  A JavaScript string that the code takes apart (a selector, a   *)
(* types list) is a sequence of pieces: one-character strings for          *)
(* selectors, words and whitespace characters for types lists.  A string   *)
(* the code only builds and compares (an identity key) is a TLA+ string.   *)
(*                                                                         *)
(* Every record constructor lists its fields in the order in which the     *)
(* field names first occur in the module, which is the order TLC keeps     *)
(* the fields of a record in.                                              *)
(***************************************************************************)
EXTENDS Integers, Sequences, FiniteSets, TLC

VARIABLES
  eventData,   \* node -> the node[EVENTS] table: identity key -> EventHandler
  events,      \* registry -> this.events, the list of EventHandlers it made
  listeners,   \* node -> the host's event listener list of the node
  nextId,      \* the next fresh object identity (closures, EventHandlers)
  last,        \* the last operation: its arguments, outcome and host calls
  aborted,     \* the AbortControllers whose abort() has been called
  keyIn,       \* input of the computation under study (key, $eventDef)
  keyOut       \* its result

vars == <<eventData, events, listeners, aborted, nextId, last, keyIn, keyOut>>

-----------------------------------------------------------------------------
(* Bounds of the model. *)

\* The most EventHandlers (and delegation closures) one behaviour creates.
MaxHandlers == 2

-----------------------------------------------------------------------------
(* JavaScript values. *)

Undef == [t |-> "undefined"]
Bool(b) == [t |-> "boolean", b |-> b]
Num(n) == [t |-> "number", n |-> n]
StrV(s) == [t |-> "string", s |-> s]
Fn(id) == [t |-> "function", id |-> id]
\* An object with a handleEvent() method (an EventListener object).
HObj(id) == [t |-> "object", id |-> id, cls |-> "EventListener"]
\* An options object; an absent property reads as undefined.
Opts(selector, capture) ==
  [t |-> "object", cls |-> "Object", selector |-> selector, capture |-> capture,
   ctrl |-> Undef, signal |-> Undef]
EmptyOpts == Opts(Undef, Undef)
NodeV(n) == [t |-> "object", cls |-> "Node", node |-> n]
NodeListV(ns) == [t |-> "object", cls |-> "NodeList", items |-> ns]

typeof(v) == v.t

\* core.types.isObj: typeof v === 'object' && v !== null.
isObj(v) == typeof(v) = "object"

\* ToBoolean of the values the model passes as flags.
Truthy(v) ==
  CASE typeof(v) = "boolean" -> v.b
    [] typeof(v) = "number" -> v.n # 0
    [] typeof(v) = "string" -> v.s # <<>>
    [] typeof(v) = "undefined" -> FALSE
    [] OTHER -> TRUE

-----------------------------------------------------------------------------
(* Strings as sequences of pieces. *)

\* The characters /\s/ matches, among those the model uses.
isWs(c) == c \in {" ", "\t"}

\* The JavaScript string a sequence of pieces spells.
RECURSIVE toStr(_)
toStr(s) == IF s = <<>> THEN "" ELSE Head(s) \o toStr(Tail(s))

\* String.prototype.replaceAll(/\s/g, ''): scan left to right, replacing
\* every match of the pattern by the empty string.
RECURSIVE replaceAllWs(_)
replaceAllWs(s) ==
  IF s = <<>> THEN ""
  ELSE (IF isWs(Head(s)) THEN "" ELSE Head(s)) \o replaceAllWs(Tail(s))

\* String.prototype.trim().
RECURSIVE trimStart(_)
trimStart(s) ==
  IF s # <<>> /\ isWs(Head(s)) THEN trimStart(Tail(s)) ELSE s
RECURSIVE trimEnd(_)
trimEnd(s) ==
  IF s # <<>> /\ isWs(s[Len(s)]) THEN trimEnd(SubSeq(s, 1, Len(s) - 1)) ELSE s
trim(s) == trimEnd(trimStart(s))

\* String.prototype.split(/\s+/): cur is the field being read.  Splitting the
\* empty string gives the one-element list [""].
RECURSIVE splitWs(_, _)
splitWs(s, cur) ==
  IF s = <<>> THEN <<cur>>
  ELSE IF isWs(Head(s))
       THEN <<cur>> \o splitWs(trimStart(s), "")
       ELSE splitWs(Tail(s), cur \o Head(s))

-----------------------------------------------------------------------------
(* lib/events/index.js: module-level definitions. *)

\* Mutant of eventSuffix: the selector is used as written.
eventSuffixNoStrip(options) ==
  LET suffix == IF typeof(options.selector) = "string"
                THEN "(" \o toStr(options.selector.s) \o ")"
                ELSE ""
  IN  IF Truthy(options.capture) THEN suffix \o ":capture" ELSE suffix

\* Mutant of eventSuffix: the capture flag is left out.
eventSuffixNoCapture(options) ==
  IF typeof(options.selector) = "string"
  THEN "(" \o replaceAllWs(options.selector.s) \o ")"
  ELSE ""

\* eventSuffix(options)
eventSuffix(options) ==
  LET suffix == IF typeof(options.selector) = "string"
                THEN "(" \o replaceAllWs(options.selector.s) \o ")"
                ELSE ""
  IN  IF Truthy(options.capture) THEN suffix \o ":capture" ELSE suffix


\* EVENT_CLASSES: the own properties of the table.  The value of $add is a
\* function, no class name.
EVENT_CLASSES ==
  [ty \in {"_default"} |-> "Event"] @@ [ty \in {"_custom"} |-> "CustomEvent"]
  @@ [ty \in {"error"} |-> "UIEvent"] @@ [ty \in {"wheel"} |-> "WheelEvent"]
  @@ [ty \in {"$add"} |-> "function $add"]
  @@ [ty \in {"copy", "cut", "paste"} |-> "ClipboardEvent"]
  @@ [ty \in {"blur", "focus", "focusin", "focusout"} |-> "FocusEvent"]
  @@ [ty \in {"keydown", "keypress", "keyup"} |-> "KeyboardEvent"]
  @@ [ty \in {"auxclick", "click", "contextmenu", "dblclick", "mousedown",
              "mouseenter", "mouseleave", "mousemove", "mouseout",
              "mouseover", "mouseup"} |-> "MouseEvent"]
  @@ [ty \in {"touchcancel", "touchend", "touchmove", "touchstart"}
        |-> "TouchEvent"]

\* The properties every plain object inherits from Object.prototype; each
\* is a function.
ObjectPrototype ==
  {"constructor", "hasOwnProperty", "isPrototypeOf", "propertyIsEnumerable",
   "toLocaleString", "toString", "valueOf"}

\* type in classes, for classes the table EVENT_CLASSES as it is at some
\* time: own and inherited properties both count.
hasClassIn(classes, type) ==
  type \in DOMAIN classes \/ type \in ObjectPrototype

\* classes[type]
classForIn(classes, type) ==
  IF type \in DOMAIN classes THEN classes[type]
  ELSE IF type \in ObjectPrototype THEN "function " \o type
  ELSE "undefined"

\* type in EVENT_CLASSES, with the table as the module makes it.
hasClass(type) == hasClassIn(EVENT_CLASSES, type)

\* EVENT_CLASSES[type]
classFor(type) == classForIn(EVENT_CLASSES, type)

\* HANDLER_PLUGINS: class name -> plugin class.  No plugin is registered.
HANDLER_PLUGINS == [c \in {} |-> Undef]

-----------------------------------------------------------------------------
(* The host document: root > mid > leaf > text. *)

Nodes == {"root", "mid", "leaf", "text"}
null == "null"

\* NODE_TYPE.ELEM and NODE_TYPE.TEXT.
ELEM == 1
TEXT == 3

nodeType(n) == IF n = "text" THEN TEXT ELSE ELEM

parentNode(n) ==
  CASE n = "text" -> "leaf"
    [] n = "leaf" -> "mid"
    [] n = "mid" -> "root"
    [] OTHER -> null

\* Node.parentElement: the parent when it is an element, else null.
parentElement(n) ==
  IF n = null THEN null
  ELSE IF parentNode(n) # null /\ nodeType(parentNode(n)) = ELEM
       THEN parentNode(n) ELSE null

tagName(n) ==
  CASE n = "root" -> "a"
    [] n = "mid" -> "a"
    [] n = "leaf" -> "b"
    [] OTHER -> ""

\* The proper ancestors of a node, nearest first.
RECURSIVE ancestors(_)
ancestors(n) ==
  IF n = null \/ parentNode(n) = null THEN <<>>
  ELSE <<parentNode(n)>> \o ancestors(parentNode(n))

\* Element.matches(selector) for selectors made of tag names and '*' joined
\* by the descendant combinator: comps[1..k] is the part still to match.
RECURSIVE matchesUpTo(_, _, _)
matchesUpTo(e, comps, k) ==
  /\ comps[k] = "*" \/ comps[k] = tagName(e)
  /\ \/ k = 1
     \/ \E i \in 1..Len(ancestors(e)) :
          matchesUpTo(ancestors(e)[i], comps, k - 1)

matches(e, selector) ==
  LET comps == splitWs(trim(selector), "")
  IN  matchesUpTo(e, comps, Len(comps))

-----------------------------------------------------------------------------
(* lib/index.js: the type tests of LumDOM. *)

\* The class of an object or the kind of a function; "" for any other value.
cls(v) == IF "cls" \in DOMAIN v THEN v.cls ELSE ""

isNode(v) == cls(v) = "Node"
isContainer(v) == cls(v) \in {"NodeList", "HTMLCollection"}

\* isElement on a node of the document, or on null.
isElement(n) == n # null /\ nodeType(n) = ELEM

isListener(what) ==
  typeof(what) = "function" \/ cls(what) = "EventListener"

-----------------------------------------------------------------------------
(* Errors, by their messages. *)

NoError == ""
InvalidType == "needType"
InvalidListener == "Invalid listener"
InvalidTarget == "target must be a Node, NodeList, or HTMLCollection"
DuplicateRegistration ==
  "Cannot re-assign an event without removing the old one first"
InvalidEvent == "event must be a string or an Event object"

-----------------------------------------------------------------------------
(* Events.$eventDef *)

NoDef == [options |-> EmptyOpts, err |-> NoError, target |-> <<>>,
          types |-> <<>>, eventListener |-> Undef]

\* Mutant of normalOptions: a boolean is dropped like any other value.
normalOptionsNoBool(options) ==
  IF typeof(options) = "string" THEN Opts(options, Undef)
  ELSE IF ~isObj(options) THEN EmptyOpts
  ELSE options

\* The options argument in normal form.
normalOptions(options) ==
  IF typeof(options) = "string" THEN Opts(options, Undef)
  ELSE IF typeof(options) = "boolean" THEN Opts(Undef, options)
  ELSE IF ~isObj(options) THEN EmptyOpts
  ELSE options

\* Mutant of eventDef: the listener is looked for in the last place only.
eventDefNoSwap(target, types, options, eventListener) ==
  IF typeof(types) # "string" THEN [NoDef EXCEPT !.err = InvalidType]
  ELSE IF ~isListener(eventListener)
  THEN [NoDef EXCEPT !.err = InvalidListener]
  ELSE IF ~isNode(target) /\ ~isContainer(target)
  THEN [NoDef EXCEPT !.err = InvalidTarget]
  ELSE [options |-> normalOptions(options),
        err |-> NoError,
        target |-> IF isNode(target) THEN <<target.node>> ELSE target.items,
        types |-> splitWs(trim(types.s), ""),
        eventListener |-> eventListener]

\* Mutant of eventDef: a target that is no node and no container counts as
\* an empty container.
eventDefAnyTarget(target, types, options, eventListener) ==
  LET swap == isListener(options)
      lsn == IF swap THEN options ELSE eventListener
      opt == IF swap THEN eventListener ELSE options
  IN  IF typeof(types) # "string" THEN [NoDef EXCEPT !.err = InvalidType]
      ELSE IF ~swap /\ ~isListener(eventListener)
      THEN [NoDef EXCEPT !.err = InvalidListener]
      ELSE [options |-> normalOptions(opt),
            err |-> NoError,
            target |-> IF isNode(target) THEN <<target.node>>
                       ELSE IF isContainer(target) THEN target.items
                       ELSE <<>>,
            types |-> splitWs(trim(types.s), ""),
            eventListener |-> lsn]

eventDef(target, types, options, eventListener) ==
  LET swap == isListener(options)
      lsn == IF swap THEN options ELSE eventListener
      opt == IF swap THEN eventListener ELSE options
  IN  IF typeof(types) # "string" THEN [NoDef EXCEPT !.err = InvalidType]
      ELSE IF ~swap /\ ~isListener(eventListener)
      THEN [NoDef EXCEPT !.err = InvalidListener]
      ELSE IF ~isNode(target) /\ ~isContainer(target)
      THEN [NoDef EXCEPT !.err = InvalidTarget]
      ELSE [options |-> normalOptions(opt),
            err |-> NoError,
            target |-> IF isNode(target) THEN <<target.node>> ELSE target.items,
            types |-> splitWs(trim(types.s), ""),
            eventListener |-> lsn]


-----------------------------------------------------------------------------
(* The host's listener lists. *)

HostCall(fn, node, type, listener, options) ==
  [node |-> node, options |-> options, type |-> type, fn |-> fn,
   listener |-> listener]

\* The host keeps an ordered list with one entry per (type, callback,
\* capture): adding an entry it already holds changes nothing.  An entry
\* remembers the signal it was added with.
hostEntry(type, listener, options) ==
  [capture |-> Truthy(options.capture), signal |-> options.signal,
   type |-> type, callback |-> listener]

\* The entry is the one (type, listener, options) names.
sameListener(e, type, listener, options) ==
  /\ e.type = type
  /\ e.callback = listener
  /\ e.capture = Truthy(options.capture)

isBound(ls, node, type, listener, options) ==
  \E i \in 1..Len(ls[node]) : sameListener(ls[node][i], type, listener, options)

\* The signal has been aborted.
isAborted(signal) == cls(signal) = "AbortSignal" /\ signal.ctrl \in aborted

\* Nothing is added for a listener already in the list, nor with a signal
\* that is aborted already.
addEventListener(ls, node, type, listener, options) ==
  IF isBound(ls, node, type, listener, options) \/ isAborted(options.signal)
  THEN ls
  ELSE [ls EXCEPT ![node] = Append(@, hostEntry(type, listener, options))]

removeEventListener(ls, node, type, listener, options) ==
  LET keep(e) == ~sameListener(e, type, listener, options)
  IN  [ls EXCEPT ![node] = SelectSeq(@, keep)]

-----------------------------------------------------------------------------
(* class EventHandler *)

isFn(obj, method) ==
  isObj(obj) /\ method \in DOMAIN obj /\ typeof(obj[method]) = "function"

EventHandler(id, node, type, listener, options) ==
  [t |-> "object", id |-> id, cls |-> "EventHandler", node |-> node,
   options |-> options, type |-> type, listener |-> listener,
   plugin |-> IF /\ hasClass(type)
                 /\ classFor(type) \in DOMAIN HANDLER_PLUGINS
              THEN HANDLER_PLUGINS[classFor(type)]
              ELSE Undef]

\* Mutant of handlerOn: addEventListener is called twice.
handlerOnTwice(h, st) ==
  IF isFn(h.plugin, "on") THEN st
  ELSE [st EXCEPT
          !.listeners = addEventListener(@, h.node, h.type, h.listener, h.options),
          !.calls = @ \o <<HostCall("addEventListener", h.node, h.type,
                                    h.listener, h.options),
                           HostCall("addEventListener", h.node, h.type,
                                    h.listener, h.options)>>]

\* EventHandler.on(): the plugin's on() when it has one, else the host's
\* addEventListener with the stored type, listener and options.
handlerOn(h, st) ==
  IF isFn(h.plugin, "on") THEN st
  ELSE [st EXCEPT
          !.listeners = addEventListener(@, h.node, h.type, h.listener, h.options),
          !.calls = Append(@, HostCall("addEventListener", h.node, h.type,
                                       h.listener, h.options))]

\* EventHandler.off(): the plugin's off() when it has one, else the host's
\* removeEventListener with the stored type, listener and options.
handlerOff(h, st) ==
  IF isFn(h.plugin, "off") THEN st
  ELSE [st EXCEPT
          !.listeners = removeEventListener(@, h.node, h.type, h.listener, h.options),
          !.calls = Append(@, HostCall("removeEventListener", h.node, h.type,
                                       h.listener, h.options))]

\* AbortController.abort() of controller id: its signal is aborted and the
\* host drops every listener that was added with that signal.
abortSignal(st, id) ==
  LET keep(e) == ~(cls(e.signal) = "AbortSignal" /\ e.signal.ctrl = id)
  IN  [st EXCEPT
         !.listeners = [n \in Nodes |-> SelectSeq(@[n], keep)],
         !.aborted = @ \cup {id}]

\* Mutant of handlerAbort: the host drops the listener of this handler only.
handlerAbortOne(h, st) ==
  IF isObj(h.options.ctrl) /\ cls(h.options.ctrl) = "AbortController"
  THEN [st EXCEPT
          !.listeners = removeEventListener(@, h.node, h.type, h.listener,
                                            h.options),
          !.aborted = @ \cup {h.options.ctrl.id}]
  ELSE st

\* Mutant of handlerAbort: the entry of the handler leaves the table too.
handlerAbortPurge(h, st) ==
  IF isObj(h.options.ctrl) /\ cls(h.options.ctrl) = "AbortController"
  THEN [abortSignal(st, h.options.ctrl.id) EXCEPT
          !.eventData[h.node] =
             [k \in {x \in DOMAIN @ : @[x] # h} |-> @[k]]]
  ELSE st

\* EventHandler.abort(): options.ctrl.abort() when options.ctrl is an object
\* with an abort method.
handlerAbort(h, st) ==
  IF isObj(h.options.ctrl) /\ cls(h.options.ctrl) = "AbortController"
  THEN abortSignal(st, h.options.ctrl.id)
  ELSE st

-----------------------------------------------------------------------------
(* Events.on *)

\* The (node, type) pairs in the order of the two loops: nodes outer, types
\* inner.
RECURSIVE pairsOf(_, _)
pairsOf(target, types) ==
  IF target = <<>> THEN <<>>
  ELSE [i \in 1..Len(types) |-> [node |-> Head(target), type |-> types[i]]]
       \o pairsOf(Tail(target), types)

\* The delegation listener on() builds around eventListener: a new function
\* object each call.
Delegation(id, selector, eventListener) ==
  [t |-> "function", cls |-> "delegation", selector |-> selector,
   eventListener |-> eventListener, closure |-> id]

\* Mutant of withCtrl: the signal of the controller replaces any signal set.
withCtrlOverwrite(options, id) ==
  LET o1 == IF options.ctrl = Bool(TRUE)
            THEN [options EXCEPT !.ctrl = [t |-> "object",
                                           id |-> id, cls |-> "AbortController"]]
            ELSE options
  IN  IF isObj(o1.ctrl)
      THEN [o1 EXCEPT !.signal = [t |-> "object", cls |-> "AbortSignal",
                                  ctrl |-> o1.ctrl.id]]
      ELSE o1

\* options.ctrl === true is replaced by a new AbortController, and the signal
\* of a controller object becomes options.signal unless one is set.
withCtrl(options, id) ==
  LET o1 == IF options.ctrl = Bool(TRUE)
            THEN [options EXCEPT !.ctrl = [t |-> "object",
                                           id |-> id, cls |-> "AbortController"]]
            ELSE options
  IN  IF isObj(o1.ctrl) /\ o1.signal = Undef
      THEN [o1 EXCEPT !.signal = [t |-> "object", cls |-> "AbortSignal",
                                  ctrl |-> o1.ctrl.id]]
      ELSE o1

\* Mutant of onStep: an existing entry is replaced without an error.
onStepNoCheck(st, p, suffix, listener, options) ==
  LET eid == p.type \o suffix
      eventDef_ == EventHandler(st.nextId, p.node, p.type, listener, options)
      bound == handlerOn(eventDef_, st)
  IN  [bound EXCEPT
         !.eventData[p.node] = (eid :> eventDef_) @@ @,
         !.events = Append(@, eventDef_),
         !.nextId = @ + 1]

\* Mutant of onStep: the new handler goes to the front of the list.
onStepPrepend(st, p, suffix, listener, options) ==
  LET eid == p.type \o suffix
  IN  IF eid \in DOMAIN st.eventData[p.node]
      THEN [st EXCEPT !.err = DuplicateRegistration]
      ELSE LET eventDef_ == EventHandler(st.nextId, p.node, p.type, listener, options)
               bound == handlerOn(eventDef_, st)
           IN  [bound EXCEPT
                  !.eventData[p.node] = (eid :> eventDef_) @@ @,
                  !.events = <<eventDef_>> \o @,
                  !.nextId = @ + 1]

\* One pass of the inner loop body of on().
onStep(st, p, suffix, listener, options) ==
  LET eid == p.type \o suffix
  IN  IF eid \in DOMAIN st.eventData[p.node]
      THEN [st EXCEPT !.err = DuplicateRegistration]
      ELSE LET eventDef_ == EventHandler(st.nextId, p.node, p.type, listener, options)
               bound == handlerOn(eventDef_, st)
           IN  [bound EXCEPT
                  !.eventData[p.node] = (eid :> eventDef_) @@ @,
                  !.events = Append(@, eventDef_),
                  !.nextId = @ + 1]

\* Mutant of onLoop: the loops go on after a pair that is registered already.
RECURSIVE onLoopPast(_, _, _, _, _)
onLoopPast(st, pairs, suffix, listener, options) ==
  IF pairs = <<>> THEN st
  ELSE onLoopPast(onStep(st, Head(pairs), suffix, listener, options),
                  Tail(pairs), suffix, listener, options)

\* The two loops of on(): they end at the first throw.
RECURSIVE onLoop(_, _, _, _, _)
onLoop(st, pairs, suffix, listener, options) ==
  IF pairs = <<>> \/ st.err # NoError THEN st
  ELSE onLoop(onStep(st, Head(pairs), suffix, listener, options),
              Tail(pairs), suffix, listener, options)


-----------------------------------------------------------------------------
(* Events.off *)

\* Mutant of offStep: the caller's listener and options go to the host even
\* when the table holds an entry.
offStepCallerListener(st, p, suffix, eventListener, options) ==
  [st EXCEPT
     !.listeners = removeEventListener(@, p.node, p.type, eventListener, options),
     !.calls = Append(@, HostCall("removeEventListener", p.node, p.type,
                                  eventListener, options))]

\* Mutant of offStep: nothing is done when the table holds no entry.
offStepNoFallback(st, p, suffix, eventListener, options) ==
  LET eid == p.type \o suffix
  IN  IF eid \in DOMAIN st.eventData[p.node]
      THEN handlerOff(st.eventData[p.node][eid], st)
      ELSE st

\* One pass of the inner loop body of off().  The table is left as it is.
offStep(st, p, suffix, eventListener, options) ==
  LET eid == p.type \o suffix
  IN  IF eid \in DOMAIN st.eventData[p.node]
      THEN handlerOff(st.eventData[p.node][eid], st)
      ELSE IF isListener(eventListener)
      THEN [st EXCEPT
              !.listeners = removeEventListener(@, p.node, p.type,
                                                eventListener, options),
              !.calls = Append(@, HostCall("removeEventListener", p.node,
                                           p.type, eventListener, options))]
      ELSE st

RECURSIVE offLoop(_, _, _, _, _)
offLoop(st, pairs, suffix, eventListener, options) ==
  IF pairs = <<>> THEN st
  ELSE offLoop(offStep(st, Head(pairs), suffix, eventListener, options),
               Tail(pairs), suffix, eventListener, options)


-----------------------------------------------------------------------------
(* The delegation listener of on(), and how the host calls a listener. *)

\* Mutant of findDelegate: the origin node is tested like any other.
RECURSIVE findDelegateIncl(_, _, _)
findDelegateIncl(origTarget, targetElem, selector) ==
  IF ~isElement(targetElem) THEN null
  ELSE IF matches(targetElem, selector) THEN targetElem
  ELSE findDelegateIncl(origTarget, parentElement(targetElem), selector)

\* Mutant of findDelegate: only the event's target itself is tested.
findDelegateTargetOnly(origTarget, targetElem, selector) ==
  IF ~isElement(targetElem) \/ targetElem = origTarget THEN null
  ELSE IF matches(targetElem, selector) THEN targetElem
  ELSE null

RECURSIVE findDelegate(_, _, _)
findDelegate(origTarget, targetElem, selector) ==
  IF ~isElement(targetElem) \/ targetElem = origTarget THEN null
  ELSE IF matches(targetElem, selector) THEN targetElem
  ELSE findDelegate(origTarget, parentElement(targetElem), selector)

\* What calling user listener fn returns.
resultOf(fn) == [t |-> "result", of |-> fn]

NoCapture == "none"

\* One call of a listener by the host: this is the node the listener is bound
\* to, e the event.  The record tells what happened: whether the user's
\* listener was invoked, with which receiver, what the event's captureTarget
\* was before and is afterwards, and what the bound listener returned.
Firing(cb, this, e, called, fn, receiver, captureTarget, ret) ==
  [target |-> e.target, fn |-> fn, this |-> this, called |-> called,
   receiver |-> receiver, captureTarget |-> captureTarget, ret |-> ret,
   via |-> cb, event |-> e.id,
   captureBefore |-> e.captureTarget]

\* What a listener that throws leaves in place of a result.
thrown(msg) == [t |-> "throw", of |-> msg]
NotAFunction == "eventListener.call is not a function"

\* A function is called with the node as receiver, an object with a
\* handleEvent method has that method called on itself.  In the delegation
\* listener eventListener.call exists when eventListener is a function; for
\* an object the call throws, after captureTarget has been defined.
callListener(cb, this, e) ==
  IF cls(cb) = "delegation"
  THEN LET delegate == findDelegate(this, e.target, cb.selector)
       IN  IF isElement(delegate)
           THEN \* def(e, 'captureTarget', this);
                \* return eventListener.call(delegate, e)
                IF typeof(cb.eventListener) = "function"
                THEN Firing(cb, this, e, TRUE, cb.eventListener, delegate,
                            this, resultOf(cb.eventListener))
                ELSE Firing(cb, this, e, FALSE, Undef, null, this,
                            thrown(NotAFunction))
           ELSE Firing(cb, this, e, FALSE, Undef, null, e.captureTarget, Undef)
  ELSE IF typeof(cb) = "function"
  THEN Firing(cb, this, e, TRUE, cb, this, e.captureTarget, resultOf(cb))
  ELSE Firing(cb, this, e, TRUE, cb, cb.id, e.captureTarget, resultOf(cb))

\* The listeners an event dispatched on node reaches, in the host's order:
\* capturing listeners from the outermost ancestor down, the target's own
\* listeners, and for a bubbling event the other listeners of the ancestors
\* from the parent up.
Reverse(q) == [i \in 1..Len(q) |-> q[Len(q) + 1 - i]]

RECURSIVE entriesAlong(_, _, _, _)
entriesAlong(ls, path, type, phase) ==
  IF path = <<>> THEN <<>>
  ELSE LET n == Head(path)
           take(e) == /\ e.type = type
                      /\ \/ phase = "target"
                         \/ phase = "capture" /\ e.capture
                         \/ phase = "bubble" /\ ~e.capture
           here == SelectSeq(ls[n], take)
       IN  [i \in 1..Len(here) |-> [cb |-> here[i].callback, this |-> n]]
           \o entriesAlong(ls, Tail(path), type, phase)

route(ls, node, e) ==
  entriesAlong(ls, Reverse(ancestors(node)), e.type, "capture")
  \o entriesAlong(ls, <<node>>, e.type, "target")
  \o (IF e.bubbles THEN entriesAlong(ls, ancestors(node), e.type, "bubble")
      ELSE <<>>)

\* node.dispatchEvent(e): the firings, in order; e carries the captureTarget
\* the firing before left on it.
RECURSIVE fireAll(_, _)
fireAll(r, e) ==
  IF r = <<>> THEN <<>>
  ELSE LET f == callListener(Head(r).cb, Head(r).this, e)
       IN  <<f>> \o fireAll(Tail(r), [e EXCEPT !.captureTarget = f.captureTarget])

dispatchEvent(ls, node, e) ==
  fireAll(route(ls, node, [e EXCEPT !.target = node]),
          [e EXCEPT !.target = node])


-----------------------------------------------------------------------------
(* Events.build and Events.trigger *)

\* Reading a property of an object: undefined when the object has none.
prop(o, k) == IF k \in DOMAIN o THEN o[k] ELSE Undef

\* The event constructors window has in the modelled host (one without
\* touch support).
windowClasses ==
  {"Event", "CustomEvent", "UIEvent", "WheelEvent", "ClipboardEvent",
   "FocusEvent", "KeyboardEvent", "MouseEvent"}

\* "no such event class: "+classname
UnknownEventClass(classname) == "no such event class: " \o classname
InvalidOptions == "options must be an object"

\* isInstance(event, window.Event)
isEvent(v) == cls(v) \in windowClasses

\* new eventClass(type, options): id tells the objects apart.
EventObj(classname, type, options, id) ==
  [t |-> "object", id |-> id, cls |-> classname, type |-> type,
   target |-> null, captureTarget |-> NoCapture,
   bubbles |-> Truthy(prop(options, "bubbles"))]

NoEvent == EventObj("", "", EmptyOpts, 0)

\* The class name build() resolves for a type with the table classes.
classnameIn(classes, type, options) ==
  IF hasClassIn(classes, type) THEN classForIn(classes, type)
  ELSE IF "detail" \in DOMAIN options THEN classes["_custom"]
  ELSE classes["_default"]

\* The class name build() resolves for a type.
classnameOf(type, options) == classnameIn(EVENT_CLASSES, type, options)

\* Mutant of build: an event is made whatever the host has.
buildAnyClass(type, options, id) ==
  IF typeof(type) # "string" THEN [err |-> InvalidType, ev |-> NoEvent]
  ELSE IF ~isObj(options) THEN [err |-> InvalidOptions, ev |-> NoEvent]
  ELSE [err |-> NoError,
        ev |-> EventObj(classnameOf(toStr(type.s), options), toStr(type.s),
                        options, id)]

\* build(type, options) with the tables EVENT_CLASSES and HANDLER_PLUGINS as
\* they are at the time of the call: id is the identity the new object gets.
buildIn(classes, plugins, type, options, id) ==
  IF typeof(type) # "string" THEN [err |-> InvalidType, ev |-> NoEvent]
  ELSE IF ~isObj(options) THEN [err |-> InvalidOptions, ev |-> NoEvent]
  ELSE LET classname == classnameIn(classes, toStr(type.s), options)
           \* the plugin's eventClass is taken only when it is the string
           \* F ('function'), which is no constructor
           plugged == /\ classname \in DOMAIN plugins
                      /\ typeof(plugins[classname]) = "function"
                      /\ prop(plugins[classname], "eventClass")
                           = StrV(<<"function">>)
           eventClass == IF plugged THEN plugins[classname].eventClass
                         ELSE IF classname \in windowClasses
                         THEN [t |-> "function", cls |-> "class",
                               name |-> classname]
                         ELSE Undef
       IN  IF typeof(eventClass) = "function"
           THEN [err |-> NoError,
                 ev |-> EventObj(eventClass.name, toStr(type.s), options, id)]
           ELSE [err |-> UnknownEventClass(classname), ev |-> NoEvent]

\* build(type, options) with the tables as the module makes them.
build(type, options, id) ==
  buildIn(EVENT_CLASSES, HANDLER_PLUGINS, type, options, id)

\* What a trigger() call has done so far: the events built, the dispatchEvent
\* calls (node and event object), the listener firings they caused, and the
\* captureTarget each event object carries.
NoTrigger ==
  [err |-> NoError, built |-> 0, dispatched |-> <<>>, fired |-> <<>>]

\* The event object as the earlier dispatches of this call left it.
RECURSIVE carried(_, _)
carried(fired, e) ==
  IF fired = <<>> THEN e
  ELSE LET f == fired[Len(fired)]
       IN  IF f.event = e.id THEN [e EXCEPT !.captureTarget = f.captureTarget]
           ELSE carried(SubSeq(fired, 1, Len(fired) - 1), e)

\* Mutant of triggerStep: the event built for the first node is used again.
triggerStepReuse(acc, ls, node, event, options) ==
  LET b == IF typeof(event) = "string"
           THEN build(event, options, 1)
           ELSE [err |-> NoError, ev |-> event]
      evObj == carried(acc.fired, b.ev)
  IN  IF b.err # NoError THEN [acc EXCEPT !.err = b.err]
      ELSE [acc EXCEPT
              !.built = IF typeof(event) = "string" THEN 1 ELSE @,
              !.dispatched = Append(@, [node |-> node, event |-> evObj.id]),
              !.fired = @ \o dispatchEvent(ls, node, evObj)]

\* One pass of the loop of trigger().
triggerStep(acc, ls, node, event, options) ==
  LET b == IF typeof(event) = "string"
           THEN build(event, options, acc.built + 1)
           ELSE [err |-> NoError, ev |-> event]
      evObj == carried(acc.fired, b.ev)
  IN  IF b.err # NoError THEN [acc EXCEPT !.err = b.err]
      ELSE [acc EXCEPT
              !.built = IF typeof(event) = "string" THEN @ + 1 ELSE @,
              !.dispatched = Append(@, [node |-> node, event |-> evObj.id]),
              !.fired = @ \o dispatchEvent(ls, node, evObj)]

\* Mutant of triggerLoop: the container is walked from its end.
RECURSIVE triggerLoopBackwards(_, _, _, _, _)
triggerLoopBackwards(acc, ls, nodes, event, options) ==
  IF nodes = <<>> \/ acc.err # NoError THEN acc
  ELSE triggerLoopBackwards(
         triggerStep(acc, ls, nodes[Len(nodes)], event, options),
         ls, SubSeq(nodes, 1, Len(nodes) - 1), event, options)

\* for (const node of target): the container's iteration order, one
\* dispatch after the other; a throw ends the loop.
RECURSIVE triggerLoop(_, _, _, _, _)
triggerLoop(acc, ls, nodes, event, options) ==
  IF nodes = <<>> \/ acc.err # NoError THEN acc
  ELSE triggerLoop(triggerStep(acc, ls, Head(nodes), event, options),
                   ls, Tail(nodes), event, options)

\* Mutant of triggerRun: any object is dispatched.
triggerRunAnyObject(ls, target, event, options) ==
  IF ~isNode(target) /\ ~isContainer(target)
  THEN [NoTrigger EXCEPT !.err = InvalidTarget]
  ELSE LET nodes == IF isNode(target) THEN <<target.node>> ELSE target.items
       IN  IF typeof(event) = "string"
           THEN IF ~Truthy(prop(options, "newEventForEach"))
                THEN LET b == build(event, options, 1)
                     IN  IF b.err # NoError
                         THEN [NoTrigger EXCEPT !.err = b.err]
                         ELSE triggerLoop([NoTrigger EXCEPT !.built = 1],
                                          ls, nodes, b.ev, options)
                ELSE triggerLoop(NoTrigger, ls, nodes, event, options)
           ELSE IF ~isObj(event) THEN [NoTrigger EXCEPT !.err = InvalidEvent]
           ELSE triggerLoop(NoTrigger, ls, nodes, event, options)

\* trigger(target, event, options), up to its return.
triggerRun(ls, target, event, options) ==
  IF ~isNode(target) /\ ~isContainer(target)
  THEN [NoTrigger EXCEPT !.err = InvalidTarget]
  ELSE LET nodes == IF isNode(target) THEN <<target.node>> ELSE target.items
       IN  IF typeof(event) = "string"
           THEN IF ~Truthy(prop(options, "newEventForEach"))
                THEN LET b == build(event, options, 1)
                     IN  IF b.err # NoError
                         THEN [NoTrigger EXCEPT !.err = b.err]
                         ELSE triggerLoop([NoTrigger EXCEPT !.built = 1],
                                          ls, nodes, b.ev, options)
                ELSE triggerLoop(NoTrigger, ls, nodes, event, options)
           ELSE IF ~isEvent(event) THEN [NoTrigger EXCEPT !.err = InvalidEvent]
           ELSE triggerLoop(NoTrigger, ls, nodes, event, options)


-----------------------------------------------------------------------------
(* The operations as steps of the state machine. *)

Registries == {"A"}

\* return this: the registry object; nothing is returned by a call that throws.
This(reg) == [t |-> "object", cls |-> "Events", reg |-> reg]
returned(reg, err) == IF err = NoError THEN This(reg) ELSE Undef

NoOp ==
  [err |-> NoError, listener |-> Undef, calls |-> <<>>, ret |-> Undef,
   reg |-> "A", op |-> "none", args |-> <<>>, def |-> NoDef,
   trig |-> NoTrigger]

\* Mutant of work: a registry sees its own entries of a table only.
workOwn(reg) ==
  LET own(n) == {k \in DOMAIN eventData[n] :
                   \E i \in 1..Len(events[reg]) :
                     events[reg][i] = eventData[n][k]}
  IN  [eventData |-> [n \in Nodes |-> [k \in own(n) |-> eventData[n][k]]],
       events |-> events[reg], listeners |-> listeners,
       nextId |-> nextId, err |-> NoError, calls |-> <<>>]

\* The working state of on() and off() for registry reg.
work(reg) ==
  [eventData |-> eventData, events |-> events[reg], listeners |-> listeners,
   nextId |-> nextId, err |-> NoError, calls |-> <<>>]

\* The listener on() binds: the delegation listener when options.selector is
\* a string, else the caller's.
listenerOf(d, id) ==
  IF typeof(d.options.selector) = "string"
  THEN Delegation(id, d.options.selector.s, d.eventListener)
  ELSE d.eventListener

\* on(target, types, options, handler) of registry reg.
on(reg, target, types, options, handler) ==
  \E d \in {eventDef(target, types, options, handler)} :
  \E pairs \in {pairsOf(d.target, d.types)} :
  \E opts \in {withCtrl(d.options, nextId)} :
  \E listener \in {listenerOf(d, nextId)} :
  \E st \in {IF d.err # NoError THEN [work(reg) EXCEPT !.err = d.err]
            ELSE onLoop(work(reg), pairs, eventSuffix(opts), listener, opts)} :
      /\ st.nextId - 1 <= MaxHandlers
      /\ eventData' = st.eventData
      /\ events' = [events EXCEPT ![reg] = st.events]
      /\ listeners' = st.listeners
      /\ nextId' = st.nextId
      /\ last' = [err |-> st.err, listener |-> listener,
                  calls |-> st.calls,
                  ret |-> returned(reg, st.err), reg |-> reg,
                  op |-> "on",
                  args |-> <<target, types, options, handler>>,
                  def |-> [d EXCEPT !.options = opts],
                  trig |-> NoTrigger]
      /\ UNCHANGED <<aborted, keyIn, keyOut>>

\* off(target, types, options, handler) of registry reg.
off(reg, target, types, options, handler) ==
  \E d \in {eventDef(target, types, options, handler)} :
  \E pairs \in {pairsOf(d.target, d.types)} :
  \E st \in {IF d.err # NoError THEN [work(reg) EXCEPT !.err = d.err]
            ELSE offLoop(work(reg), pairs, eventSuffix(d.options),
                         d.eventListener, d.options)} :
      /\ eventData' = st.eventData
      /\ events' = [events EXCEPT ![reg] = st.events]
      /\ listeners' = st.listeners
      /\ nextId' = st.nextId
      /\ last' = [err |-> st.err, listener |-> d.eventListener,
                  calls |-> st.calls,
                  ret |-> returned(reg, st.err), reg |-> reg,
                  op |-> "off",
                  args |-> <<target, types, options, handler>>, def |-> d,
                  trig |-> NoTrigger]
      /\ UNCHANGED <<aborted, keyIn, keyOut>>

\* trigger(target, event, options) of registry reg.
trigger(reg, target, event, options) ==
  \E r \in {triggerRun(listeners, target, event, options)} :
      /\ last' = [err |-> r.err, listener |-> Undef,
                  calls |-> <<>>, ret |-> returned(reg, r.err),
                  reg |-> reg, op |-> "trigger",
                  args |-> <<target, event, options>>,
                  def |-> NoDef, trig |-> r]
      /\ UNCHANGED <<eventData, events, listeners, aborted, nextId, keyIn, keyOut>>

\* build(type, options) of registry reg: the new event is what it returns.
buildCall(reg, type, options) ==
  \E b \in {build(type, options, 1)} :
      /\ last' = [err |-> b.err, listener |-> Undef, calls |-> <<>>,
                  ret |-> IF b.err = NoError THEN b.ev ELSE Undef,
                  reg |-> reg, op |-> "build",
                  args |-> <<type, options>>, def |-> NoDef,
                  trig |-> NoTrigger]
      /\ UNCHANGED <<eventData, events, listeners, aborted, nextId, keyIn, keyOut>>

\* abort() of the i-th handler of registry reg; it returns the handler.
abort(reg, i) ==
  \E h \in {events[reg][i]} :
  \E st \in {handlerAbort(h, [eventData |-> eventData,
                              events |-> events[reg],
                              listeners |-> listeners,
                              aborted |-> aborted])} :
      /\ eventData' = st.eventData
      /\ events' = [events EXCEPT ![reg] = st.events]
      /\ listeners' = st.listeners
      /\ aborted' = st.aborted
      /\ last' = [err |-> NoError, listener |-> h.listener, calls |-> <<>>,
                  ret |-> h, reg |-> reg, op |-> "abort", args |-> <<h>>,
                  def |-> NoDef, trig |-> NoTrigger]
      /\ UNCHANGED <<nextId, keyIn, keyOut>>

-----------------------------------------------------------------------------
(* The registry: on() and off() on two nodes. *)

f1 == Fn("f1")
f2 == Fn("f2")
click == StrV(<<"click">>)

RegOptions ==
  {Undef, Bool(TRUE), StrV(<<"a", " ", "b">>), StrV(<<"a", "b">>)}
RegListeners == {f1, f2}

\* The calls made: every option set and listener on root, two of them on mid.
RegCalls ==
  [options : RegOptions, target : {NodeV("root")}, handler : RegListeners]
  \cup {[options |-> Undef, target |-> NodeV("mid"), handler |-> f1],
        [options |-> StrV(<<"a", "b">>), target |-> NodeV("mid"),
         handler |-> f2]}
UnregCalls == {c \in RegCalls : c.handler = f2 \/ c.target = NodeV("mid")}

NoKey == [options |-> EmptyOpts, type |-> ""]
NoKeys == [on |-> "?", off |-> "?"]

Init ==
  /\ eventData = [n \in Nodes |-> [k \in {} |-> Undef]]
  /\ events = [r \in Registries |-> <<>>]
  /\ listeners = [n \in Nodes |-> <<>>]
  /\ aborted = {}
  /\ nextId = 1
  /\ last = NoOp
  /\ keyIn = NoKey
  /\ keyOut = NoKeys

Register ==
  \E reg \in Registries, c \in RegCalls :
    on(reg, c.target, click, c.options, c.handler)

Unregister ==
  \E reg \in Registries, c \in UnregCalls :
    off(reg, c.target, click, c.options, c.handler)

Next == Register \/ Unregister

Spec == Init /\ [][Next]_vars


-----------------------------------------------------------------------------
(* Vocabulary of the properties. *)

\* The (node, type) pairs of the last call and the identity key it used.
lastPairs == pairsOf(last.def.target, last.def.types)
lastKey(p) == p.type \o eventSuffix(last.def.options)

\* The same for the call a step makes.
nextPairs == pairsOf(last'.def.target, last'.def.types)
nextKey(p) == p.type \o eventSuffix(last'.def.options)

\* The entry of a node's table under a key is bound on the host.
entryBound(ls, tables, node, key) ==
  /\ key \in DOMAIN tables[node]
  /\ isBound(ls, node, tables[node][key].type, tables[node][key].listener,
             tables[node][key].options)

\* The selector of an option set with its whitespace taken out, as a list of
\* characters; no selector is told apart from every selector.
bareSelector(options) ==
  IF typeof(options.selector) = "string"
  THEN <<"(">> \o SelectSeq(options.selector.s, LAMBDA c : ~isWs(c))
  ELSE <<>>

\* Two option sets name the same binding of a node and type.
sameIdentity(o1, o2) ==
  /\ bareSelector(o1) = bareSelector(o2)
  /\ Truthy(o1.capture) = Truthy(o2.capture)

-----------------------------------------------------------------------------
(* C1, C2, C3: register, unregister and the table. *)

\* C1 (as claimed): when on() succeeds and off() is called next with the same
\* arguments, the node's table holds no entry under the identity key
\* afterwards.
C1_RegisterThenUnregisterEmpties ==
  [][ ( /\ last.op = "on" /\ last.err = NoError
        /\ last'.op = "off" /\ last'.reg = last.reg /\ last'.args = last.args )
      => \A i \in 1..Len(nextPairs) :
           nextKey(nextPairs[i]) \notin DOMAIN eventData'[nextPairs[i].node]
    ]_vars

C3_ReRegisterAfterUnregister ==
  [][ ( /\ last.op = "off" /\ last.err = NoError
        /\ last'.op = "on" /\ last'.reg = last.reg /\ last'.args = last.args )
      => /\ last'.err = NoError
         /\ \A i \in 1..Len(nextPairs) :
              entryBound(listeners', eventData', nextPairs[i].node,
                         nextKey(nextPairs[i]))
    ]_vars


-----------------------------------------------------------------------------
(* C7: independent identity keys. *)

clashes(tables, node, type, options) ==
  \E k \in DOMAIN tables[node] :
    /\ tables[node][k].type = type
    /\ sameIdentity(tables[node][k].options, options)

-----------------------------------------------------------------------------
(* C8, C9: what off() passes to the host. *)

C9_StoredRemove ==
  ( last.op = "off" /\ last.def.err = NoError )
  => /\ Len(last.calls) = Len(lastPairs)
     /\ \A i \in 1..Len(lastPairs) :
          LET p == lastPairs[i]
          IN  lastKey(p) \in DOMAIN eventData[p.node]
              => LET h == eventData[p.node][lastKey(p)]
                 IN  /\ last.calls[i] =
                          HostCall("removeEventListener", h.node, h.type,
                                   h.listener, h.options)
                     /\ ~isBound(listeners, h.node, h.type, h.listener,
                                 h.options)

\* C9 witness: off() named another listener and other options than the
\* delegated registration it found, and the delegation listener went to the
\* host with the stored options.
C9_Witness ==
  /\ last.op = "off" /\ last.err = NoError /\ Len(lastPairs) = 1
  /\ LET p == lastPairs[1]
     IN  /\ lastKey(p) \in DOMAIN eventData[p.node]
         /\ LET h == eventData[p.node][lastKey(p)]
            IN  /\ cls(h.listener) = "delegation"
                /\ h.listener.eventListener # last.def.eventListener
                /\ h.options # last.def.options
                /\ last.calls[1].listener = h.listener
                /\ last.calls[1].options = h.options


-----------------------------------------------------------------------------
(* The identity key as on() and off() compute it, over a range of types,    *)
(* selectors and capture values.                                            *)

KeyTypes == {"click", "frob"}
KeySelectors ==
  {Undef, Num(5), StrV(<<>>), StrV(<<"a">>), StrV(<<"a", " ", "b">>),
   StrV(<<"a", "b">>), StrV(<<" ", "a", "\t", "b", " ">>)}
KeyCaptures == {Undef, Bool(FALSE), Bool(TRUE), Num(0), Num(1)}
KeyCtrls == {Undef, Bool(TRUE)}

KeyInputs ==
  {[options |-> [Opts(sel, cap) EXCEPT !.ctrl = ctrl], type |-> ty] :
     ty \in KeyTypes, sel \in KeySelectors, cap \in KeyCaptures,
     ctrl \in KeyCtrls}

InitKey ==
  /\ eventData = [n \in Nodes |-> [k \in {} |-> Undef]]
  /\ events = [r \in Registries |-> <<>>]
  /\ listeners = [n \in Nodes |-> <<>>]
  /\ aborted = {}
  /\ nextId = 1
  /\ last = NoOp
  /\ keyIn \in KeyInputs
  /\ keyOut = NoKeys

\* on(): const suffix = eventSuffix(options), after options.ctrl is settled;
\* const eid = type+suffix.
KeyOn ==
  /\ keyOut.on = "?"
  /\ keyOut' = [keyOut EXCEPT
                  !.on = keyIn.type \o eventSuffix(withCtrl(keyIn.options, nextId))]
  /\ UNCHANGED <<eventData, events, listeners, aborted, nextId, last, keyIn>>

\* off(): const suffix = eventSuffix(options); const eid = type+suffix.
KeyOff ==
  /\ keyOut.off = "?"
  /\ keyOut' = [keyOut EXCEPT !.off = keyIn.type \o eventSuffix(keyIn.options)]
  /\ UNCHANGED <<eventData, events, listeners, aborted, nextId, last, keyIn>>

NextKey == KeyOn \/ KeyOff

SpecKey == InitKey /\ [][NextKey]_vars

\* The key the claim describes: the type, then the selector without its
\* whitespace in parentheses if a string selector is given, then ':capture'
\* if capture is truthy.
claimedKey(type, selector, capture) ==
  type
  \o (IF typeof(selector) = "string"
      THEN "(" \o toStr(SelectSeq(selector.s, LAMBDA c : ~isWs(c))) \o ")"
      ELSE "")
  \o (IF Truthy(capture) THEN ":capture" ELSE "")

\* C6: the key on() computes and the key off() computes for a type and
\* option set are both the key the claim describes, a function of the type,
\* the selector and the capture flag alone.
C6_IdentityKey ==
  /\ keyOut.on # "?"
     => keyOut.on = claimedKey(keyIn.type, keyIn.options.selector,
                               keyIn.options.capture)
  /\ keyOut.off # "?"
     => keyOut.off = claimedKey(keyIn.type, keyIn.options.selector,
                                keyIn.options.capture)
  /\ (keyOut.on # "?" /\ keyOut.off # "?") => keyOut.on = keyOut.off

\* C6 witness: both keys are computed for a selector with whitespace, a
\* truthy capture value that is no boolean, and a cancellation request.
C6_Witness ==
  /\ keyOut.on # "?" /\ keyOut.off # "?"
  /\ keyIn.options.selector = StrV(<<" ", "a", "\t", "b", " ">>)
  /\ keyIn.options.capture = Num(1)
  /\ keyIn.options.ctrl = Bool(TRUE)
  /\ keyOut.on = keyIn.type \o "(ab):capture"


-----------------------------------------------------------------------------
(* Delegation and dispatch: on() with and without a selector on root and    *)
(* mid, and trigger() on every node of the document.                        *)

DispTargets == {NodeV("root"), NodeV("mid")}
DispOptions ==
  {Undef, StrV(<<"a">>), StrV(<<"*">>), Opts(StrV(<<"b">>), Bool(TRUE))}
DispListeners == {f1}

\* An event object the caller built: a bubbling click.
preBuilt ==
  [EventObj("MouseEvent", "click", EmptyOpts, 0) EXCEPT !.bubbles = TRUE]

TrigTargets ==
  {NodeV(n) : n \in Nodes} \cup {NodeListV(<<"text", "leaf", "mid">>)}
TrigEvents == {click, preBuilt}
TrigOptions ==
  {[t |-> "object", cls |-> "Object", bubbles |-> Bool(bubbles),
    newEventForEach |-> Bool(each)] :
     <<each, bubbles>> \in {<<FALSE, TRUE>>, <<TRUE, TRUE>>, <<FALSE, FALSE>>}}

Bind ==
  \E reg \in Registries, target \in DispTargets, options \in DispOptions,
     handler \in DispListeners :
    on(reg, target, click, options, handler)

Trigger ==
  \E reg \in Registries, target \in TrigTargets, event \in TrigEvents,
     options \in TrigOptions :
    trigger(reg, target, event, options)

NextDispatch == Bind \/ Trigger

SpecDispatch == Init /\ [][NextDispatch]_vars

-----------------------------------------------------------------------------
(* C4, C5: the delegation listener. *)

\* The nodes from the event's target up to the origin, the origin left out.
RECURSIVE chainBelow(_, _)
chainBelow(target, origin) ==
  IF target = null \/ target = origin THEN <<>>
  ELSE <<target>> \o chainBelow(parentNode(target), origin)

\* The first element of the chain that matches the selector, or null.
nearestMatch(target, origin, selector) ==
  LET chain == chainBelow(target, origin)
      hits == {i \in 1..Len(chain) :
                 isElement(chain[i]) /\ matches(chain[i], selector)}
  IN  IF hits = {} THEN null
      ELSE chain[CHOOSE i \in hits : \A j \in hits : i <= j]

\* The firings of delegation listeners in the last trigger().
delegated == {i \in 1..Len(last.trig.fired) :
                cls(last.trig.fired[i].via) = "delegation"}

-----------------------------------------------------------------------------
(* C10: the event objects trigger() dispatches. *)

\* C10: a trigger() that returns has dispatched once per target; given a
\* type name with newEventForEach it built one event per target and
\* dispatched each to its target, given a type name without it it built one
\* event and dispatched that to every target, and given an event object it
\* built none and dispatched the given object to every target.
C10_EventObjects ==
  ( last.op = "trigger" /\ last.err = NoError )
  => LET event == last.args[2]
         each == Truthy(prop(last.args[3], "newEventForEach"))
         d == last.trig.dispatched
         n == IF isNode(last.args[1]) THEN 1 ELSE Len(last.args[1].items)
     IN  /\ Len(d) = n
         /\ (typeof(event) = "string" /\ each)
            => /\ last.trig.built = n
               /\ \A i \in 1..n : d[i].event \in 1..n
               /\ \A i, j \in 1..n : i # j => d[i].event # d[j].event
         /\ (typeof(event) = "string" /\ ~each)
            => /\ last.trig.built = 1
               /\ \A i \in 1..n : d[i].event = 1
         /\ typeof(event) # "string"
            => /\ last.trig.built = 0
               /\ \A i \in 1..n : d[i].event = event.id

\* C10 witness: a type name with newEventForEach went to three targets as
\* three event objects.
C10_Witness ==
  /\ last.op = "trigger" /\ last.err = NoError
  /\ typeof(last.args[2]) = "string"
  /\ Truthy(prop(last.args[3], "newEventForEach"))
  /\ Len(last.trig.dispatched) = 3
  /\ Cardinality({last.trig.dispatched[i].event : i \in 1..3}) = 3

-----------------------------------------------------------------------------
(* C11: the dispatches of trigger(). *)

\* The nodes a target argument stands for, in iteration order.
nodesOf(target) == IF isNode(target) THEN <<target.node>> ELSE target.items

\* The arguments of a trigger() call are valid: a node or container, a type
\* name whose event class the host has or an event object, and an options
\* object.
validTrigger(args) ==
  /\ isNode(args[1]) \/ isContainer(args[1])
  /\ isObj(args[3])
  /\ \/ isEvent(args[2])
     \/ /\ typeof(args[2]) = "string"
        /\ build(args[2], args[3], 1).err = NoError

\* The place in the list of dispatches of the dispatch a firing belongs to.
dispatchOf(f) ==
  CHOOSE k \in 1..Len(last.trig.dispatched) :
    last.trig.dispatched[k].node = f.target

\* C11: a trigger() with valid arguments throws nothing, calls dispatchEvent
\* once for each node of the target, in the target's order, every listener
\* call of one dispatch coming before the listener calls of the next, and
\* returns the registry.
C11_DispatchInOrder ==
  ( last.op = "trigger" /\ validTrigger(last.args) )
  => LET d == last.trig.dispatched
         fired == last.trig.fired
     IN  /\ last.err = NoError
         /\ [k \in 1..Len(d) |-> d[k].node] = nodesOf(last.args[1])
         /\ \A i, j \in 1..Len(fired) :
              i < j => dispatchOf(fired[i]) <= dispatchOf(fired[j])
         /\ last.ret = This(last.reg)

\* C11 witness: a trigger() on a list of three nodes has dispatched three
\* times, listeners were called in the second and in the third dispatch,
\* and the registry came back.
C11_Witness ==
  /\ last.op = "trigger" /\ last.err = NoError
  /\ Len(last.trig.dispatched) = 3
  /\ \E i, j \in 1..Len(last.trig.fired) :
       /\ dispatchOf(last.trig.fired[i]) = 2
       /\ dispatchOf(last.trig.fired[j]) = 3
  /\ last.ret = This(last.reg)

-----------------------------------------------------------------------------
(* The argument checks: on(), off(), trigger() and build() called with      *)
(* valid and invalid targets, types lists, listeners, events and types.     *)

ArgTargets == {NodeV("root"), NodeListV(<<"root", "mid">>), Num(7), Undef}
ArgTypes ==
  {click, StrV(<<"click", " ", "focus">>), StrV(<<>>), StrV(<<" ", "\t">>)}
ArgListeners == {f1, Undef}

\* A plain object with the properties of an event; no instance of Event.
plainEvent ==
  [t |-> "object", id |-> 9, cls |-> "Object", type |-> "click",
   target |-> null, captureTarget |-> NoCapture, bubbles |-> TRUE]
ArgEvents == {click, StrV(<<"touchstart">>), preBuilt, Num(1), plainEvent}

BuildTypes ==
  {click, StrV(<<"error">>), StrV(<<"touchstart">>), StrV(<<"frobnicate">>),
   StrV(<<"toString">>), StrV(<<"_custom">>), StrV(<<"_default">>),
   StrV(<<"$add">>)}
BuildOptions ==
  {EmptyOpts,
   [t |-> "object", cls |-> "Object", detail |-> Num(1)],
   [t |-> "object", cls |-> "Object", bubbles |-> Bool(TRUE)]}

CallOn ==
  \E reg \in Registries, target \in ArgTargets, types \in ArgTypes,
     handler \in ArgListeners :
    on(reg, target, types, Undef, handler)

CallOff ==
  \E reg \in Registries, target \in ArgTargets, types \in ArgTypes,
     handler \in ArgListeners :
    off(reg, target, types, Undef, handler)

CallTrigger ==
  \E reg \in Registries, target \in ArgTargets, event \in ArgEvents :
    trigger(reg, target, event, EmptyOpts)

CallBuild ==
  \E reg \in Registries, type \in BuildTypes, options \in BuildOptions :
    buildCall(reg, type, options)

NextArgs == CallOn \/ CallOff \/ CallTrigger \/ CallBuild

SpecArgs == Init /\ [][NextArgs]_vars

-----------------------------------------------------------------------------
(* C12, C13: the event class build() resolves and constructs. *)

\* The event names of the table: its keys but the three for internal use.
EventNames == DOMAIN EVENT_CLASSES \ {"_default", "_custom", "$add"}

\* The class the claim gives a type name and options.
claimedClass(type, options) ==
  IF type \in EventNames THEN EVENT_CLASSES[type]
  ELSE IF "detail" \in DOMAIN options THEN "CustomEvent"
  ELSE "Event"

\* The class name a build() call has resolved: the class of the event it
\* returned, or the name its error message gives.
resolvedClass(call) ==
  IF call.err = NoError THEN call.ret.cls
  ELSE CHOOSE c \in {EVENT_CLASSES[k] : k \in DOMAIN EVENT_CLASSES}
                    \cup {"function " \o k : k \in ObjectPrototype} :
         call.err = UnknownEventClass(c)

\* C12 (as claimed): build() resolves an event name of the table to the
\* table's class, and every other type name to CustomEvent when options has
\* a detail key and to Event otherwise.
C12_ClassFromTable ==
  ( last.op = "build" /\ typeof(last.args[1]) = "string"
    /\ isObj(last.args[2]) )
  => resolvedClass(last) = claimedClass(toStr(last.args[1].s), last.args[2])

\* C13: a build() with a type string and an options object throws "no such
\* event class" exactly when the host has no constructor under the
\* resolved class name; otherwise it throws nothing and returns an event of
\* that class made from the type and the options.  Either way the tables,
\* the registry's list and the host's listener lists stay as they are.
C13_UnknownClassOnly ==
  [][ ( /\ last'.op = "build" /\ typeof(last'.args[1]) = "string"
        /\ isObj(last'.args[2]) )
      => LET type == toStr(last'.args[1].s)
             options == last'.args[2]
             classname == classnameOf(type, options)
         IN  /\ last'.err = UnknownEventClass(classname)
                <=> classname \notin windowClasses
             /\ classname \in windowClasses
                => /\ last'.err = NoError
                   /\ last'.ret.cls = classname
                   /\ last'.ret.type = type
                   /\ last'.ret.bubbles = Truthy(prop(options, "bubbles"))
             /\ last'.err # NoError => last'.ret = Undef
             /\ eventData' = eventData
             /\ events' = events
             /\ listeners' = listeners
    ]_vars

\* C13 witness: with a listener bound and stored, build() has failed for a
\* touch event, whose class the host lacks.
C13_Witness ==
  /\ last.op = "build"
  /\ last.err = UnknownEventClass("TouchEvent")
  /\ \E n \in Nodes : eventData[n] # <<>> /\ listeners[n] # <<>>

-----------------------------------------------------------------------------
(* $eventDef as a function of the two arguments after types: every pair of  *)
(* values, taken in the order given and in the other order.                 *)

NormListeners == {f1, f2, HObj("h")}
NormOptions ==
  {Undef, Num(0), Bool(FALSE), Bool(TRUE), StrV(<<"a">>), StrV(<<>>),
   Opts(StrV(<<"a">>), Bool(TRUE)),
   [Opts(Undef, Undef) EXCEPT !.ctrl = Bool(TRUE)]}
NormValues == NormListeners \cup NormOptions

\* The result of a call not made yet.
Pending == [NoDef EXCEPT !.err = "?"]

InitNorm ==
  /\ eventData = [n \in Nodes |-> [k \in {} |-> Undef]]
  /\ events = [r \in Registries |-> <<>>]
  /\ listeners = [n \in Nodes |-> <<>>]
  /\ aborted = {}
  /\ nextId = 1
  /\ last = NoOp
  /\ keyIn \in [third : NormValues, fourth : NormValues]
  /\ keyOut = [fwd |-> Pending, rev |-> Pending]

\* $eventDef(target, types, third, fourth)
NormFwd ==
  /\ keyOut.fwd = Pending
  /\ keyOut' = [keyOut EXCEPT
                  !.fwd = eventDef(NodeV("root"), click, keyIn.third,
                                   keyIn.fourth)]
  /\ UNCHANGED <<eventData, events, listeners, aborted, nextId, last, keyIn>>

\* $eventDef(target, types, fourth, third)
NormRev ==
  /\ keyOut.rev = Pending
  /\ keyOut' = [keyOut EXCEPT
                  !.rev = eventDef(NodeV("root"), click, keyIn.fourth,
                                   keyIn.third)]
  /\ UNCHANGED <<eventData, events, listeners, aborted, nextId, last, keyIn>>

NextNorm == NormFwd \/ NormRev

SpecNorm == InitNorm /\ [][NextNorm]_vars

-----------------------------------------------------------------------------
(* C14, C15: the listener and the options $eventDef settles on. *)

-----------------------------------------------------------------------------
(* C16: a types string with no type name in it. *)

\* A string of whitespace only, the empty string included.
isBlank(v) == typeof(v) = "string" /\ \A i \in 1..Len(v.s) : isWs(v.s[i])

\* C16: on() and off() called with a valid target, a listener and an empty
\* or whitespace-only types string get an empty list of types, make no call
\* to the host, change no table and no list of handlers and throw nothing.
C16_BlankTypesNoEffect ==
  [][( /\ last'.op \in {"on", "off"}
       /\ isBlank(last'.args[2])
       /\ isNode(last'.args[1]) \/ isContainer(last'.args[1])
       /\ last'.args[4] = f1 )
     => /\ last'.def.types = <<>>
        /\ last'.calls = <<>>
        /\ last'.err = NoError
        /\ UNCHANGED <<eventData, events, listeners>>]_vars

-----------------------------------------------------------------------------
(* C17, C18: the target and event checks. *)

\* The targets called with that are no node and no container of nodes.
BadTargets == {Num(7), Undef}
\* The events called with that are no string and no instance of Event.
BadEvents == {Num(1), plainEvent}

C18_BadEventRejected ==
  ( /\ last.op = "trigger"
    /\ last.args[1] \notin BadTargets
    /\ last.args[2] \in BadEvents )
  => /\ last.err = InvalidEvent
     /\ last.ret = Undef
     /\ last.trig.dispatched = <<>>
     /\ last.trig.fired = <<>>
     /\ last.trig.built = 0

\* C18 witness: with a click listener bound on root, trigger() was called on
\* root with a plain object of type click and threw the event error.
C18_Witness ==
  /\ last.op = "trigger"
  /\ last.args[1] = NodeV("root") /\ last.args[2] = plainEvent
  /\ last.err = InvalidEvent
  /\ \E i \in 1..Len(listeners["root"]) :
       listeners["root"][i].type = "click"

-----------------------------------------------------------------------------
(* Abort controllers: on() with the ctrl and signal options, abort() of a   *)
(* stored handler, off() and trigger() on one node.                         *)

AbortController(id) == [t |-> "object", id |-> id, cls |-> "AbortController"]
AbortSignal(id) == [t |-> "object", cls |-> "AbortSignal", ctrl |-> id]

\* A controller the caller made, and the signal of another one of the
\* caller's, which is never aborted.
callerCtrl == AbortController(0)
callerSignal == AbortSignal(-1)

CtrlOptions ==
  {[Opts(Undef, capture) EXCEPT !.ctrl = ctrl, !.signal = signal] :
     capture \in {Undef, Bool(TRUE)},
     ctrl \in {Undef, Bool(TRUE), callerCtrl},
     signal \in {Undef, callerSignal}}
CtrlTypes == {click, StrV(<<"click", " ", "focus">>)}

CtrlOn ==
  \E reg \in Registries, types \in CtrlTypes, options \in CtrlOptions :
    on(reg, NodeV("root"), types, options, f1)

CtrlOff ==
  \E reg \in Registries, capture \in {Undef, Bool(TRUE)} :
    off(reg, NodeV("root"), click, Opts(Undef, capture), f1)

CtrlAbort ==
  \E reg \in Registries : \E i \in 1..Len(events[reg]) : abort(reg, i)

CtrlTrigger ==
  \E reg \in Registries : trigger(reg, NodeV("root"), click, EmptyOpts)

NextCtrl == CtrlOn \/ CtrlOff \/ CtrlAbort \/ CtrlTrigger

SpecCtrl == Init /\ [][NextCtrl]_vars

\* The controllers held by the options of the handlers of registry reg.
ctrlsOf(reg) ==
  {events[reg][i].options.ctrl.id :
     i \in {j \in 1..Len(events[reg]) : isObj(events[reg][j].options.ctrl)}}

-----------------------------------------------------------------------------
(* C19, C20: the ctrl option and abort(). *)

C20_AbortKeepsEntry ==
  [][last'.op = "abort"
     => LET h == last'.ret
            eid == h.type \o eventSuffix(h.options)
        IN  /\ UNCHANGED <<eventData, events, nextId>>
            /\ eid \in DOMAIN eventData'[h.node]
            /\ eventData'[h.node][eid] = h]_vars

\* C20 witness: a handler whose controller on() made has been aborted; the
\* host no longer holds its listener and the table still holds the handler.
C20_Witness ==
  /\ last.op = "abort"
  /\ cls(last.ret.options.ctrl) = "AbortController"
  /\ last.ret.options.ctrl.id \in aborted \ {0}
  /\ last.ret.options.signal = AbortSignal(last.ret.options.ctrl.id)
  /\ ~isBound(listeners, last.ret.node, last.ret.type, last.ret.listener,
              last.ret.options)
  /\ \E k \in DOMAIN eventData[last.ret.node] :
       eventData[last.ret.node][k] = last.ret

-----------------------------------------------------------------------------
(* Two registries on one document: on() and off() on one and two nodes with *)
(* one and two types, abort(), trigger() and build().                       *)

TwoRegistries == {"A", "B"}
SharedTargets == {NodeV("root"), NodeV("mid"), NodeListV(<<"root", "mid">>)}
SharedTypes == {click, StrV(<<"click", " ", "focus">>)}

InitShared ==
  /\ eventData = [n \in Nodes |-> [k \in {} |-> Undef]]
  /\ events = [r \in TwoRegistries |-> <<>>]
  /\ listeners = [n \in Nodes |-> <<>>]
  /\ aborted = {}
  /\ nextId = 1
  /\ last = NoOp
  /\ keyIn = NoKey
  /\ keyOut = NoKeys

SharedOn ==
  \E reg \in TwoRegistries, target \in SharedTargets, types \in SharedTypes :
    on(reg, target, types, Undef, f1)

SharedOff ==
  \E reg \in TwoRegistries, target \in SharedTargets,
     handler \in RegListeners :
    off(reg, target, click, Undef, handler)

SharedAbort ==
  \E reg \in TwoRegistries : \E i \in 1..Len(events[reg]) : abort(reg, i)

SharedTrigger ==
  \E reg \in TwoRegistries : trigger(reg, NodeV("root"), click, EmptyOpts)

SharedBuild ==
  \E reg \in TwoRegistries : buildCall(reg, click, EmptyOpts)

NextShared ==
  SharedOn \/ SharedOff \/ SharedAbort \/ SharedTrigger \/ SharedBuild

SpecShared == InitShared /\ [][NextShared]_vars

-----------------------------------------------------------------------------
(* C21: on() that throws in the middle of its loops. *)

\* Node n holds the listener of handler h for the type of h.
hostHolds(ls, h) == isBound(ls, h.node, h.type, h.listener, h.options)

\* C21: when on() throws the duplicate error, with k the number of handlers
\* the call made: the first k pairs of the call, in the order nodes outer and
\* types inner, each got one addEventListener call, are bound on the host
\* and are stored in the table of their node; pair k + 1 was in its table
\* before the call and its entry is the one it was; no call was made for it
\* or for a later pair, and a later pair is in its table after the call only
\* if it was there before, with the same entry.
C21_StopsAtDuplicate ==
  [][( /\ last'.op = "on"
       /\ last'.err = DuplicateRegistration )
     => LET reg == last'.reg
            pairs == pairsOf(last'.def.target, last'.def.types)
            suffix == eventSuffix(last'.def.options)
            eid(i) == pairs[i].type \o suffix
            k == Len(events'[reg]) - Len(events[reg])
            made(i) == events'[reg][Len(events[reg]) + i]
        IN  /\ k \in 0..(Len(pairs) - 1)
            /\ Len(last'.calls) = k
            /\ \A i \in 1..k :
                 /\ eid(i) \notin DOMAIN eventData[pairs[i].node]
                 /\ eventData'[pairs[i].node][eid(i)] = made(i)
                 /\ made(i).node = pairs[i].node
                 /\ made(i).type = pairs[i].type
                 /\ last'.calls[i].fn = "addEventListener"
                 /\ last'.calls[i].node = pairs[i].node
                 /\ last'.calls[i].type = pairs[i].type
                 /\ hostHolds(listeners', made(i))
            /\ \A i \in (k + 1)..Len(pairs) :
                 LET before == eventData[pairs[i].node]
                     after == eventData'[pairs[i].node]
                     held == listeners[pairs[i].node]
                     bound == listeners'[pairs[i].node]
                 IN  /\ i = k + 1 => eid(i) \in DOMAIN before
                     /\ eid(i) \in DOMAIN after
                        => /\ eid(i) \in DOMAIN before
                           /\ after[eid(i)] = before[eid(i)]
                     /\ \A j \in 1..Len(bound) :
                          bound[j].type = pairs[i].type
                          => \E x \in 1..Len(held) : held[x] = bound[j]]_vars

\* C21 witness: on() for two nodes threw the duplicate error at the second
\* node after it bound and stored the first.
C21_Witness ==
  /\ last.op = "on" /\ last.err = DuplicateRegistration
  /\ Len(last.def.target) = 2
  /\ Len(last.calls) = 1
  /\ last.calls[1].node = "root"
  /\ \E k \in DOMAIN eventData["root"] :
       eventData["root"][k] = events[last.reg][Len(events[last.reg])]

-----------------------------------------------------------------------------
(* C22: the list of handlers of a registry. *)

\* Sequence a is the beginning of sequence b.
isPrefix(a, b) == Len(a) <= Len(b) /\ a = SubSeq(b, 1, Len(a))

\* C22: no step shortens or reorders the list of any registry; off(),
\* trigger(), build() and abort() leave every list as it is; on() leaves the
\* lists of the other registries as they are and appends to its own one
\* handler for each addEventListener call it made, in the order of the
\* calls, each a new object that is also the entry of its node's table
\* under its type and suffix.
C22_ListIsBindingHistory ==
  [][/\ \A r \in TwoRegistries : isPrefix(events[r], events'[r])
     /\ last'.op \in {"off", "trigger", "build", "abort"}
        => events' = events
     /\ last'.op = "on"
        => LET reg == last'.reg
               old == Len(events[reg])
               new(i) == events'[reg][old + i]
           IN  /\ \A r \in TwoRegistries \ {reg} : events'[r] = events[r]
               /\ Len(events'[reg]) = old + Len(last'.calls)
               /\ \A i \in 1..Len(last'.calls) :
                    /\ new(i).node = last'.calls[i].node
                    /\ new(i).type = last'.calls[i].type
                    /\ new(i).listener = last'.calls[i].listener
                    /\ \A r \in TwoRegistries :
                         \A j \in 1..Len(events[r]) :
                           events[r][j].id # new(i).id
                    /\ \A j \in 1..Len(last'.calls) :
                         new(j).id = new(i).id => j = i
                    /\ LET eid == new(i).type \o eventSuffix(new(i).options)
                       IN  /\ eid \notin DOMAIN eventData[new(i).node]
                           /\ eventData'[new(i).node][eid] = new(i)]_vars

\* C22 witness: each registry has one handler in its list, and the last
\* call was an off() that removed a listener from the host.
C22_Witness ==
  /\ Len(events["A"]) = 1 /\ Len(events["B"]) = 1
  /\ last.op = "off" /\ last.err = NoError
  /\ Len(last.calls) = 1
  /\ last.calls[1].fn = "removeEventListener"

-----------------------------------------------------------------------------
(* C23: on() on a free key. *)

-----------------------------------------------------------------------------
(* lib/events/plugin.js: a plugin class registers itself and its events in  *)
(* the tables of the module; build() is then called for several types.      *)

\* A class (a constructor function) of the given name.
Class(name) == [t |-> "function", cls |-> "class", name |-> name]

\* A class extending EventsPlugin, with its static properties.
PluginClass(name, eventClass, knownEvents) ==
  [t |-> "function", cls |-> "class", eventClass |-> eventClass,
   name |-> name, knownEvents |-> knownEvents]

\* The elements of an array.
elements(a) == {a[i] : i \in 1..Len(a)}

\* EVENT_CLASSES.$add(classname, ...events)
add(classes, classname, evs) ==
  [ev \in elements(evs) |-> classname] @@ classes

\* static registerPlugin(): Events.PLUGINS[this.name] = this
registerPlugin(tables, plugin) ==
  [tables EXCEPT !.plugins = (plugin.name :> plugin) @@ @]

\* static registerEvents(events, fatal) with fatal false: an array of names
\* is added to the table, a string is split first, anything else is passed
\* over.
registerEvents(tables, plugin, evs) ==
  LET names == IF typeof(evs) = "string"
               THEN [t |-> "array", items |-> splitWs(trim(evs.s), "")]
               ELSE evs
  IN  IF typeof(names) = "array"
      THEN [tables EXCEPT !.classes = add(@, plugin.name, names.items)]
      ELSE tables

\* static register()
register(tables, plugin) ==
  registerEvents(registerPlugin(tables, plugin), plugin, plugin.knownEvents)

PluginNames == {"SwipePlugin"}
PluginEventClasses == {Undef, Class("SwipeEvent"), StrV(<<"function">>)}
PluginEvents ==
  {Undef, StrV(<<"swipe">>),
   [t |-> "array", items |-> <<"swipe", "click">>]}
PluginBuildTypes ==
  {StrV(<<"swipe">>), click, StrV(<<"focus">>), StrV(<<"frobnicate">>)}

\* The tables as the module makes them; type and built are the arguments
\* and the outcome of the last call when that was a build().
NoBuild == [err |-> "?", ev |-> NoEvent]
ModuleTables ==
  [classes |-> EVENT_CLASSES, type |-> Undef,
   plugins |-> HANDLER_PLUGINS, built |-> NoBuild]

InitPlugin ==
  /\ eventData = [n \in Nodes |-> [k \in {} |-> Undef]]
  /\ events = [r \in Registries |-> <<>>]
  /\ listeners = [n \in Nodes |-> <<>>]
  /\ aborted = {}
  /\ nextId = 1
  /\ last = NoOp
  /\ keyIn \in {PluginClass(n, c, e) :
                  n \in PluginNames, c \in PluginEventClasses,
                  e \in PluginEvents}
  /\ keyOut = ModuleTables

\* The plugin class registers itself.
PluginRegister ==
  /\ keyIn.name \notin DOMAIN keyOut.plugins
  /\ keyOut' = [register(keyOut, keyIn) EXCEPT
                  !.type = Undef, !.built = NoBuild]
  /\ UNCHANGED <<eventData, events, listeners, aborted, nextId, last, keyIn>>

\* build(type, options) with the tables as they are.
PluginBuild ==
  \E type \in PluginBuildTypes, options \in BuildOptions :
    /\ keyOut' = [keyOut EXCEPT
                    !.type = type,
                    !.built = buildIn(keyOut.classes, keyOut.plugins, type,
                                      options, 1)]
    /\ UNCHANGED <<eventData, events, listeners, aborted, nextId, last, keyIn>>

NextPlugin == PluginRegister \/ PluginBuild

SpecPlugin == InitPlugin /\ [][NextPlugin]_vars

-----------------------------------------------------------------------------
(* C24: the event class of a plugin. *)

\* C24: when the type build() is called with is registered to a plugin
\* class whose static eventClass is a constructor, build() throws nothing
\* and the event it returns is an instance of that eventClass.
C24_PluginEventClass ==
  ( /\ keyOut.built # NoBuild
    /\ keyIn.name \in DOMAIN keyOut.plugins
    /\ toStr(keyOut.type.s) \in DOMAIN keyOut.classes
    /\ keyOut.classes[toStr(keyOut.type.s)] = keyIn.name
    /\ typeof(keyIn.eventClass) = "function" )
  => /\ keyOut.built.err = NoError
     /\ keyOut.built.ev.cls = keyIn.eventClass.name

-----------------------------------------------------------------------------
(* lib/index.js: LumDOM.html(string, mode) as a function of the mode and of *)
(* the numbers of child elements the parsed document has in its head and    *)
(* in its body.                                                             *)

\* The most child elements of the head and of the body.
MaxChildren == 3

\* HTML_MODE
HM == {"AUTO", "AUTO_BODY", "DOC", "HTML", "BODY"}

\* The objects of the parsed document html() may return.
Document == [t |-> "object", cls |-> "Document"]
Element(tag) == [t |-> "object", cls |-> "HTMLElement", tagName |-> tag]
\* body.children[0] and body.children of a body with n child elements.
FirstChild == [t |-> "object", cls |-> "HTMLElement", tagName |-> "P"]
Children(n) == [t |-> "object", cls |-> "HTMLCollection", length |-> n]

\* html(string, mode) where the document parse(string) gives has head and
\* body child elements as counted; an HTML document has both elements.
html(headCount, bodyCount, mode) ==
  LET hasBody == bodyCount > 0
      hasHead == headCount > 0
  IN  IF mode = "DOC" THEN Document
      ELSE IF mode = "HTML" \/ ~hasBody \/ hasHead THEN Element("HTML")
      ELSE IF mode = "BODY" THEN Element("BODY")
      ELSE IF bodyCount = 1 THEN FirstChild
      ELSE IF mode = "AUTO_BODY" THEN Element("BODY")
      ELSE Children(bodyCount)

NoResult == [t |-> "undefined", cls |-> "?"]

InitHtml ==
  /\ eventData = [n \in Nodes |-> [k \in {} |-> Undef]]
  /\ events = [r \in Registries |-> <<>>]
  /\ listeners = [n \in Nodes |-> <<>>]
  /\ aborted = {}
  /\ nextId = 1
  /\ last = NoOp
  /\ keyIn \in [mode : HM, head : 0..MaxChildren, body : 0..MaxChildren]
  /\ keyOut = NoResult

HtmlCall ==
  /\ keyOut = NoResult
  /\ keyOut' = html(keyIn.head, keyIn.body, keyIn.mode)
  /\ UNCHANGED <<eventData, events, listeners, aborted, nextId, last, keyIn>>

NextHtml == HtmlCall

SpecHtml == InitHtml /\ [][NextHtml]_vars

-----------------------------------------------------------------------------
(* C25: what html() returns. *)

\* C25: html() returns the document for DOC, the html element for HTML and
\* the body element for BODY, whatever the head and the body hold; for AUTO
\* the html element when the head has a child element or the body has
\* none, the one child of a body with one child, else body.children; for
\* AUTO_BODY the same but the body element when the body has several
\* child elements.
C25_HtmlModes ==
  keyOut # NoResult
  => LET whole == keyIn.head > 0 \/ keyIn.body = 0
     IN  /\ keyIn.mode = "DOC" => keyOut = Document
         /\ keyIn.mode = "HTML" => keyOut = Element("HTML")
         /\ keyIn.mode = "BODY" => keyOut = Element("BODY")
         /\ keyIn.mode \in {"AUTO", "AUTO_BODY"} /\ whole
            => keyOut = Element("HTML")
         /\ keyIn.mode \in {"AUTO", "AUTO_BODY"} /\ ~whole /\ keyIn.body = 1
            => keyOut = FirstChild
         /\ keyIn.mode = "AUTO" /\ ~whole /\ keyIn.body > 1
            => keyOut = Children(keyIn.body)
         /\ keyIn.mode = "AUTO_BODY" /\ ~whole /\ keyIn.body > 1
            => keyOut = Element("BODY")

-----------------------------------------------------------------------------
(* lib/query.js: Query.get(query, inNode) on the host document. *)

\* The most nodes of a container.
MaxItems == 3

\* The element nodes below n in document order; a node of the document has
\* one child at most.
RECURSIVE descendants(_)
descendants(n) ==
  LET cs == {c \in Nodes : parentNode(c) = n /\ nodeType(c) = ELEM}
  IN  IF cs = {} THEN <<>>
      ELSE LET c == CHOOSE x \in cs : TRUE IN <<c>> \o descendants(c)

\* node.querySelector(query): the first descendant that matches, or null.
querySelector(n, query) ==
  LET hits == SelectSeq(descendants(n), LAMBDA e : matches(e, query))
  IN  IF hits = <<>> THEN null ELSE Head(hits)

\* isQueryNode(node) for a node of the document: an element, a document or
\* a fragment.
isQueryNode(n) == nodeType(n) = ELEM

\* A node of the document, or null, as a value.
NullV == [t |-> "object", cls |-> "null"]
valueOf(n) == IF n = null THEN NullV ELSE NodeV(n)

\* The loop of get() over the nodes of a container.
RECURSIVE getLoop(_, _)
getLoop(items, query) ==
  IF items = <<>> THEN null
  ELSE IF isQueryNode(Head(items))
       THEN LET res == querySelector(Head(items), query)
            IN  IF isNode(NodeV(Head(items))) THEN res
                ELSE getLoop(Tail(items), query)
       ELSE getLoop(Tail(items), query)

\* Query.get(query, inNode)
get(query, inNode) ==
  IF isNode(inNode) /\ isQueryNode(inNode.node)
  THEN valueOf(querySelector(inNode.node, query))
  ELSE IF isContainer(inNode) THEN valueOf(getLoop(inNode.items, query))
  ELSE NullV

QuerySelectors ==
  {<<"a">>, <<"b">>, <<"*">>, <<"a", " ", "b">>, <<"a", " ", "a">>, <<"c">>}

\* The sequences of distinct nodes up to the length given.
distinctSeqs(len) ==
  {q \in UNION {[1..k -> Nodes] : k \in 0..len} :
     \A i, j \in DOMAIN q : q[i] = q[j] => i = j}
QueryNodes ==
  {NodeV(n) : n \in Nodes} \cup {NodeListV(q) : q \in distinctSeqs(MaxItems)}

InitQuery ==
  /\ eventData = [n \in Nodes |-> [k \in {} |-> Undef]]
  /\ events = [r \in Registries |-> <<>>]
  /\ listeners = [n \in Nodes |-> <<>>]
  /\ aborted = {}
  /\ nextId = 1
  /\ last = NoOp
  /\ keyIn \in [query : QuerySelectors, inNode : QueryNodes]
  /\ keyOut = NoResult

QueryGet ==
  /\ keyOut = NoResult
  /\ keyOut' = get(keyIn.query, keyIn.inNode)
  /\ UNCHANGED <<eventData, events, listeners, aborted, nextId, last, keyIn>>

NextQuery == QueryGet

SpecQuery == InitQuery /\ [][NextQuery]_vars

-----------------------------------------------------------------------------
(* C26: get() on a container. *)

\* C26: get() on a container returns what querySelector finds in the first
\* node of the container, among those that can be queried, in which it
\* finds something, and null only when it finds nothing in any of them.
C26_FirstNodeWithMatch ==
  (keyOut # NoResult /\ isContainer(keyIn.inNode))
  => LET items == keyIn.inNode.items
         hit(i) == /\ isQueryNode(items[i])
                   /\ querySelector(items[i], keyIn.query) # null
         hits == {i \in 1..Len(items) : hit(i)}
     IN  IF hits = {} THEN keyOut = NullV
         ELSE LET first == CHOOSE i \in hits : \A j \in hits : i <= j
              IN  keyOut = NodeV(querySelector(items[first], keyIn.query))

-----------------------------------------------------------------------------
(* C27: two registries and the table of a node. *)

\* The handlers in the list of registry r.
handlersOf(r) == {events[r][i] : i \in 1..Len(events[r])}

-----------------------------------------------------------------------------
(* C28: selectors that differ in whitespace only. *)

\* The entries of the table of node n made for type with a selector that
\* is another string than sel and the same once whitespace is taken out.
lookAlikes(n, type, sel) ==
  {h \in {eventData[n][k] : k \in DOMAIN eventData[n]} :
     /\ h.type = type
     /\ typeof(h.options.selector) = "string"
     /\ h.options.selector # sel
     /\ replaceAllWs(h.options.selector.s) = replaceAllWs(sel.s)
     /\ Truthy(h.options.capture) = FALSE}

-----------------------------------------------------------------------------
(* C29: the controller one on() call makes. *)

\* The handlers of registry reg whose options hold the controller of h.
sharing(reg, h) ==
  {g \in {events[reg][i] : i \in 1..Len(events[reg])} :
     g.options.ctrl = h.options.ctrl}

\* The handler abort() was called on holds a controller that on() made.
abortedOwn ==
  /\ last'.op = "abort"
  /\ cls(last'.ret.options.ctrl) = "AbortController"
  /\ last'.ret.options.ctrl # callerCtrl

-----------------------------------------------------------------------------
(* Listeners of both kinds, bound with and without a selector on root, and  *)
(* clicks triggered on the nodes below.                                     *)

hObj == HObj("h")
ObjListeners == {f1, hObj}
ObjOptions == {Undef, StrV(<<"b">>), StrV(<<"c">>)}
ObjTargets == {NodeV("root"), NodeV("mid"), NodeV("leaf")}
bubbling == [t |-> "object", cls |-> "Object", bubbles |-> Bool(TRUE)]

ObjOn ==
  \E reg \in Registries, options \in ObjOptions, handler \in ObjListeners :
    on(reg, NodeV("root"), click, options, handler)

ObjTrigger ==
  \E reg \in Registries, target \in ObjTargets :
    trigger(reg, target, click, bubbling)

NextObj == ObjOn \/ ObjTrigger

SpecObj == Init /\ [][NextObj]_vars

-----------------------------------------------------------------------------
(* C30: a listener object behind a selector. *)

\* C30: when the listener of a delegated registration is an object with a
\* handleEvent method and the delegation listener finds a delegate for an
\* event, the object receives the event and nothing is thrown.
C30_ObjectListenerDelegated ==
  \A i \in 1..Len(last.trig.fired) :
    LET f == last.trig.fired[i]
    IN  ( /\ cls(f.via) = "delegation"
          /\ f.via.eventListener = hObj
          /\ isElement(findDelegate(f.this, f.target, f.via.selector)) )
        => /\ f.called
           /\ f.fn = hObj
           /\ f.ret = resultOf(hObj)

====
